---------------------------- MODULE Spec2Model ----------------------------
(***************************************************************************)
(* A model of the Kinetic protocol codec of src/kinetic/Kinetic.js: one    *)
(* Kinetic instance (its fields _message, _chunk, _hmac, _cmd), the socket *)
(* it writes to and reads from, and the peer and the network around it.    *)
(* Buffers are sequences of bytes (0..255).  A protobuf message value is a *)
(* function from field names to values; an absent (null) field is not in   *)
(* its domain.  A second part models the listing algorithm of              *)
(* src/lib/algos/list/delimiter.js and the caller that lists a bucket page *)
(* by page (SpecList).                                                     *)
(* A third part applies diff of Kinetic.js to the buffers a caller passes  *)
(* (SpecDiff).                                                             *)
(***************************************************************************)
EXTENDS Integers, Sequences, FiniteSets, TLC

(***************************************************************************)
(* Bounds of the model.                                                    *)
(***************************************************************************)
MaxOps == 3        \* operations performed on the instance in a run
MaxSeq == 1        \* caller-supplied sequence numbers are 0..MaxSeq
MaxClock == 2      \* (new Date).getTime() yields 1..MaxClock
MaxMaxKeys == 2    \* parameters.maxKeys is undefined or -1..MaxMaxKeys
MaxPages == 3      \* pages of one listing
MaxShuffled == 3   \* keys passed to filter in any order
MaxBufLen == 3     \* bytes of a buffer passed to diff

(***************************************************************************)
(* Program constants.                                                      *)
(***************************************************************************)
VERSION == 70                      \* 0x46
HeaderLen == 9                     \* new Buffer(9)
DigestLen == 3                     \* bytes of a digest
HashMod == 16777213                \* modulus of the digest model
HashMul == 31                      \* multiplier of the digest model

\* this.errors
SUCCESS == 1
HMAC_FAILURE == 2
VERSION_FAILURE == 4
INTERNAL_ERROR == 5
DATA_ERROR == 11

\* The secret of setHMAC: the bytes of 'asdfasdf'.
Secret == <<97, 115, 100, 102, 97, 115, 100, 102>>

(***************************************************************************)
(* Bytes and buffers.                                                      *)
(***************************************************************************)
Empty == [k \in {} |-> 0]          \* the message with no field set

Min(a, b) == IF a < b THEN a ELSE b
Max(a, b) == IF a < b THEN b ELSE a

Pow2(k) == 2 ^ k

\* b with bit k (0..7) flipped.
FlipByte(b, k) == IF (b \div Pow2(k)) % 2 = 1 THEN b - Pow2(k) ELSE b + Pow2(k)

\* buf with bit k of the byte at index i (0-based) flipped.
FlipBit(buf, i, k) == [buf EXCEPT ![i + 1] = FlipByte(buf[i + 1], k)]

\* Buffer.prototype.slice(start, end): negative indices count from the
\* end, both are clamped to the buffer, an end before the start is empty.
Clamp(len, i) == IF i < 0 THEN Max(len + i, 0) ELSE Min(i, len)

Slice(buf, start, end) ==
    LET s == Clamp(Len(buf), start)
        e == Clamp(Len(buf), end)
    IN  IF e <= s THEN <<>> ELSE SubSeq(buf, s + 1, e)

\* buf.writeInt32BE(n) on a new Buffer(4), for -2^31 <= n < 2^31: the
\* two's complement of n, most significant byte first.
WriteInt32BE(n) ==
    LET m == IF n < 0 THEN (n + 2147483647) + 1 ELSE n
        top == IF n < 0 THEN 128 ELSE 0
    IN  <<top + (m \div 16777216), (m \div 65536) % 256, (m \div 256) % 256, m % 256>>

\* buf.readInt32BE(off): a signed 32-bit integer (off is 0-based and
\* off + 4 <= Len(buf)).
ReadInt32BE(buf, off) ==
    LET hi == IF buf[off + 1] >= 128 THEN buf[off + 1] - 256 ELSE buf[off + 1]
    IN  hi * 16777216 + buf[off + 2] * 65536 + buf[off + 3] * 256 + buf[off + 4]

\* buf.readInt8(off): a signed byte.
ReadInt8(buf, off) == IF buf[off + 1] >= 128 THEN buf[off + 1] - 256 ELSE buf[off + 1]

\* buf.writeInt8(v) for -128 <= v <= 127.
WriteInt8(v) == IF v < 0 THEN v + 256 ELSE v

(***************************************************************************)
(* The structured-encoding service (protobuf wire format) and the schema   *)
(* of the envelope (Message) and the Command.                              *)
(***************************************************************************)
F(name, num, kind, sub) == [name |-> name, num |-> num, kind |-> kind, sub |-> sub]

\* The fields of each message type, in the order they are encoded.
Schema(type) ==
    CASE type = "Message" ->
            << F("authType", 4, "varint", ""), F("hmacAuth", 5, "message", "HMACauth"),
               F("commandBytes", 7, "bytes", "") >>
      [] type = "HMACauth" ->
            << F("identity", 1, "varint", ""), F("hmac", 2, "bytes", "") >>
      [] type = "Command" ->
            << F("header", 1, "message", "Header"), F("body", 2, "message", "Body"),
               F("status", 3, "message", "Status") >>
      [] type = "Header" ->
            << F("clusterVersion", 1, "varint", ""), F("connectionID", 3, "varint", ""),
               F("sequence", 4, "varint", ""), F("ackSequence", 6, "varint", ""),
               F("messageType", 7, "varint", "") >>
      [] type = "Body" ->
            << F("keyValue", 1, "message", "KeyValue"), F("setup", 3, "message", "Setup"),
               F("getLog", 6, "message", "GetLog") >>
      [] type = "Status" ->
            << F("code", 1, "varint", ""), F("detailedMessage", 3, "bytes", "") >>
      [] type = "KeyValue" ->
            << F("newVersion", 2, "bytes", ""), F("key", 3, "bytes", ""),
               F("dbVersion", 4, "bytes", ""), F("synchronization", 9, "varint", "") >>
      [] type = "GetLog" ->
            << F("types", 1, "repeated", ""), F("messages", 7, "bytes", "") >>
      [] type = "Setup" ->
            << F("newClusterVersion", 1, "varint", "") >>

\* The fields a decoder reports as missing: decoding bytes that lack one
\* raises a fault that carries the structure decoded so far.
Required(type) ==
    CASE type = "Message" -> {"commandBytes"}
      [] type = "Command" -> {"header"}
      [] OTHER -> {}

\* Wire types.
WireType(kind) == IF kind \in {"varint", "repeated"} THEN 0 ELSE 2

RECURSIVE EncVarint(_)
EncVarint(n) == IF n < 128 THEN <<n>> ELSE <<128 + (n % 128)>> \o EncVarint(n \div 128)

RECURSIVE EncRepeated(_, _)
EncRepeated(tag, vs) ==
    IF vs = <<>> THEN <<>>
    ELSE EncVarint(tag) \o EncVarint(Head(vs)) \o EncRepeated(tag, Tail(vs))

RECURSIVE EncFields(_, _, _)
\* The encoding of the fields i.. of the schema fs that v sets.
EncFields(fs, v, i) ==
    IF i > Len(fs) THEN <<>>
    ELSE LET f == fs[i]
             tag == f.num * 8 + WireType(f.kind)
             one ==
               IF f.name \notin DOMAIN v THEN <<>>
               ELSE CASE f.kind = "varint" -> EncVarint(tag) \o EncVarint(v[f.name])
                      [] f.kind = "repeated" -> EncRepeated(tag, v[f.name])
                      [] f.kind = "bytes" ->
                           EncVarint(tag) \o EncVarint(Len(v[f.name])) \o v[f.name]
                      [] f.kind = "message" ->
                           LET sub == EncFields(Schema(f.sub), v[f.name], 1)
                           IN  EncVarint(tag) \o EncVarint(Len(sub)) \o sub
         IN  one \o EncFields(fs, v, i + 1)

\* message.toBuffer()
Encode(type, v) == EncFields(Schema(type), v, 1)

\* message.calculate(): the size of the encoding.
Calculate(type, v) == Len(Encode(type, v))

RECURSIVE ReadVarint(_, _, _)
\* The varint at position pos (1-based) of buf, reading at most left bytes:
\* its value and the position after it, or ok = FALSE when buf ends inside
\* it or it is longer than left bytes.
ReadVarint(buf, pos, left) ==
    IF pos > Len(buf) \/ left = 0 THEN [ok |-> FALSE, val |-> 0, next |-> pos]
    ELSE IF buf[pos] < 128 THEN [ok |-> TRUE, val |-> buf[pos], next |-> pos + 1]
    ELSE LET r == ReadVarint(buf, pos + 1, left - 1)
         IN  [ok |-> r.ok, val |-> (buf[pos] - 128) + 128 * r.val, next |-> r.next]

MaxVarintBytes == 4

Fault == [kind |-> "fault", val |-> Empty]

FieldByNum(fs, num) == { i \in 1..Len(fs) : fs[i].num = num }

RECURSIVE DecFields(_, _, _, _)
\* Decodes buf from position pos on into the message acc of the given type.
DecFields(type, buf, pos, acc) ==
    IF pos > Len(buf) THEN
        IF Required(type) \subseteq DOMAIN acc
        THEN [kind |-> "ok", val |-> acc]
        ELSE [kind |-> "partial", val |-> acc]
    ELSE
    LET t == ReadVarint(buf, pos, MaxVarintBytes) IN
    IF ~t.ok THEN Fault ELSE
    LET num == t.val \div 8
        wt == t.val % 8
        known == FieldByNum(Schema(type), num)
    IN
    IF wt = 0 THEN
        LET r == ReadVarint(buf, t.next, MaxVarintBytes) IN
        IF ~r.ok THEN Fault
        ELSE IF known = {} THEN DecFields(type, buf, r.next, acc)
        ELSE LET f == Schema(type)[CHOOSE i \in known : TRUE] IN
             IF f.kind = "varint"
             THEN DecFields(type, buf, r.next,
                            (f.name :> r.val) @@ acc)
             ELSE IF f.kind = "repeated"
             THEN DecFields(type, buf, r.next,
                            (f.name :> (IF f.name \in DOMAIN acc
                                        THEN Append(acc[f.name], r.val)
                                        ELSE <<r.val>>)) @@ acc)
             ELSE Fault
    ELSE IF wt = 2 THEN
        LET l == ReadVarint(buf, t.next, MaxVarintBytes) IN
        IF ~l.ok \/ l.next + l.val > Len(buf) + 1 THEN Fault
        ELSE LET payload == SubSeq(buf, l.next, l.next + l.val - 1)
                 after == l.next + l.val
             IN
             IF known = {} THEN DecFields(type, buf, after, acc)
             ELSE LET f == Schema(type)[CHOOSE i \in known : TRUE] IN
                  IF f.kind = "bytes"
                  THEN DecFields(type, buf, after, (f.name :> payload) @@ acc)
                  ELSE IF f.kind = "message"
                  THEN LET sub == DecFields(f.sub, payload, 1, Empty) IN
                       IF sub.kind = "ok"
                       THEN DecFields(type, buf, after, (f.name :> sub.val) @@ acc)
                       ELSE Fault
                  ELSE Fault
    ELSE IF wt = 1 /\ known = {} THEN
        IF t.next + 8 > Len(buf) + 1 THEN Fault
        ELSE DecFields(type, buf, t.next + 8, acc)
    ELSE IF wt = 5 /\ known = {} THEN
        IF t.next + 4 > Len(buf) + 1 THEN Fault
        ELSE DecFields(type, buf, t.next + 4, acc)
    ELSE Fault

(***************************************************************************)
(* The Kinetic instance.  An object held in _message or _cmd is a typed    *)
(* message ("Message" or "Command") or undefined; _chunk and _hmac are a   *)
(* buffer or undefined.                                                    *)
(***************************************************************************)
Undefined == [type |-> "undefined", val |-> Empty]
Obj(type, val) == [type |-> type, val |-> val]

NoBuf == [def |-> FALSE, buf |-> <<>>]
Buf(b) == [def |-> TRUE, buf |-> b]

\* An optional argument or field: <<>> is null, <<x>> is the value x.
None == <<>>
Some(x) == <<x>>

\* obj.name of a message value: null when the field is not set.
Get(v, name) == IF name \in DOMAIN v THEN Some(v[name]) ELSE None

\* The field name set to an optional value (a null value sets nothing).
Opt(name, m) == IF m = None THEN Empty ELSE (name :> m[1])

\* The state of a freshly constructed instance.
NewKinetic == [message |-> Undefined, chunk |-> NoBuf, hmac |-> NoBuf, cmd |-> Undefined]

\* What an operation leaves behind: the instance, whether it threw, and
\* the value it returned (0 where it returns the instance).
Returned(this, ret) == [this |-> this, threw |-> FALSE, ret |-> ret]
Thrown(this) == [this |-> this, threw |-> TRUE, ret |-> 0]

RECURSIVE Absorb(_, _, _)
\* The hash state h after absorbing the bytes i.. of buf.
Absorb(h, buf, i) ==
    IF i > Len(buf) THEN h
    ELSE Absorb((h * HashMul + buf[i] + 1) % HashMod, buf, i + 1)

\* crypto.createHmac('sha1', secret).update(integrity).digest(): a keyed
\* digest of DigestLen bytes.
Hmac(secret, integrity) ==
    LET h == Absorb(Absorb(Len(secret) + 1, secret, 1), integrity, 1)
    IN  [i \in 1..DigestLen |-> (h \div (256 ^ (DigestLen - i))) % 256]

setChunk(this, chunk) == [this EXCEPT !.chunk = Buf(chunk)]

setProtobuf(this, pbMessage) == [this EXCEPT !.message = pbMessage]

setHMAC(this, integrity) == [this EXCEPT !.hmac = Buf(Hmac(Secret, integrity))]

\* toBuffer() of the object held in _message.
toBuffer(this) == Encode(this.message.type, this.message.val)

getProtobufSize(this) == Calculate(this.message.type, this.message.val)

\* A variant of getChunkSize that forgets the chunk held.
getChunkSizeOfNone(this) == 0

getChunkSize(this) == IF ~this.chunk.def THEN 0 ELSE Len(this.chunk.buf)

\* The input of the digest: the 4-byte size of _message, then its bytes.
Integrity(this) == WriteInt32BE(getProtobufSize(this)) \o toBuffer(this)

\* A variant of setMessage that keeps the Command as the current message
\* and has the envelope made only by send.
setMessageInner(this, command) ==
    LET t1 == setProtobuf(this, Obj("Command", command))
    IN  setHMAC(t1, Integrity(t1))

\* A variant of setMessage that puts the digest the instance held before
\* into the envelope and keeps it.
setMessageStale(this, command) ==
    LET t1 == setProtobuf(this, Obj("Command", command))
    IN  setProtobuf(t1, Obj("Message",
            [authType |-> 1,
             hmacAuth |-> [identity |-> 1, hmac |-> this.hmac.buf],
             commandBytes |-> toBuffer(t1)]))

setMessage(this, command) ==
    LET t1 == setProtobuf(this, Obj("Command", command))
        t2 == setHMAC(t1, Integrity(t1))
    IN  setProtobuf(t2, Obj("Message",
            [authType |-> 1,
             hmacAuth |-> [identity |-> 1, hmac |-> t2.hmac.buf],
             commandBytes |-> toBuffer(t1)]))

\* buf[i] for a 0-based index: -1 stands for undefined, past the end.
At(buf, i) == IF i < Len(buf) THEN buf[i + 1] ELSE -1

\* A variant of diff whose loop stops one index early.
diffButLast(buf0, buf1) ==
    IF Len(buf0) # Len(buf1) THEN FALSE
    ELSE \A i \in 0..(Len(buf0) - 2) : At(buf0, i) = At(buf1, i)

diff(buf0, buf1) ==
    IF Len(buf0) # Len(buf1) THEN FALSE
    ELSE \A i \in 0..Len(buf0) : At(buf0, i) = At(buf1, i)

(***************************************************************************)
(* send(sock): the bytes written to the socket.                            *)
(***************************************************************************)
pduHeader(this) ==
    <<WriteInt8(VERSION)>> \o WriteInt32BE(getProtobufSize(this))
                           \o WriteInt32BE(getChunkSize(this))

sendBytes(this) ==
    IF this.chunk.def
    THEN pduHeader(this) \o toBuffer(this) \o this.chunk.buf
    ELSE pduHeader(this) \o toBuffer(this)

(***************************************************************************)
(* The commands the builders assemble.                                     *)
(***************************************************************************)
\* this.op
op == [PUT |-> 4, PUT_RESPONSE |-> 3, GET |-> 2, GET_RESPONSE |-> 1,
       NOOP |-> 30, NOOP_RESPONSE |-> 29, DELETE |-> 6, DELETE_RESPONSE |-> 5,
       SET_CLUSTER_VERSION |-> 22, SETUP_RESPONSE |-> 21,
       FLUSH |-> 32, FLUSH_RESPONSE |-> 31, GETLOG |-> 24, GETLOG_RESPONSE |-> 23]

\* Object.keys(this.op): the names in the order the constructor lists them.
opKeys ==
    << "PUT", "PUT_RESPONSE", "GET", "GET_RESPONSE", "NOOP", "NOOP_RESPONSE",
       "DELETE", "DELETE_RESPONSE", "SET_CLUSTER_VERSION", "SETUP_RESPONSE",
       "FLUSH", "FLUSH_RESPONSE", "GETLOG", "GETLOG_RESPONSE" >>

logs == [UTILIZATIONS |-> 0, TEMPERATURES |-> 1, CAPACITIES |-> 2,
         CONFIGURATION |-> 3, STATISTICS |-> 4, MESSAGES |-> 5, LIMITS |-> 6,
         DEVICE |-> 7]

logsKeys ==
    << "UTILIZATIONS", "TEMPERATURES", "CAPACITIES", "CONFIGURATION",
       "STATISTICS", "MESSAGES", "LIMITS", "DEVICE" >>

errors == [INVALID_STATUS_CODE |-> -1, NOT_ATTEMPTED |-> 0, SUCCESS |-> 1,
           HMAC_FAILURE |-> 2, NOT_AUTHORIZED |-> 3, VERSION_FAILURE |-> 4,
           INTERNAL_ERROR |-> 5, HEADER_REQUIRED |-> 6, NOT_FOUND |-> 7,
           VERSION_MISMATCH |-> 8, SERVICE_BUSY |-> 9, EXPIRED |-> 10,
           DATA_ERROR |-> 11, PERM_DATA_ERROR |-> 12,
           REMOTE_CONNECTION_ERROR |-> 13, NO_SPACE |-> 14,
           NO_SUCH_HMAC_ALGORITHM |-> 15, INVALID_REQUEST |-> 16,
           NESTED_OPERATION_ERRORS |-> 17, DEVICE_LOCKED |-> 18,
           DEVICE_ALREADY_UNLOCKED |-> 19, CONNECTION_TERMINATED |-> 20,
           INVALID_BATCH |-> 21]

errorsKeys ==
    << "INVALID_STATUS_CODE", "NOT_ATTEMPTED", "SUCCESS", "HMAC_FAILURE",
       "NOT_AUTHORIZED", "VERSION_FAILURE", "INTERNAL_ERROR", "HEADER_REQUIRED",
       "NOT_FOUND", "VERSION_MISMATCH", "SERVICE_BUSY", "EXPIRED", "DATA_ERROR",
       "PERM_DATA_ERROR", "REMOTE_CONNECTION_ERROR", "NO_SPACE",
       "NO_SUCH_HMAC_ALGORITHM", "INVALID_REQUEST", "NESTED_OPERATION_ERRORS",
       "DEVICE_LOCKED", "DEVICE_ALREADY_UNLOCKED", "CONNECTION_TERMINATED",
       "INVALID_BATCH" >>

\* Object.keys(object).find(key => object[key] === value): the first name
\* whose code is the value, or undefined.
getKeyByValue(keys, object, value) ==
    LET found == { i \in DOMAIN keys : Some(object[keys[i]]) = value }
    IN  IF found = {} THEN None
        ELSE Some(keys[CHOOSE i \in found : \A j \in found : i <= j])

\* A variant of getOp that looks the code up in the table of errors.
getOpOfErrors(opCode) == getKeyByValue(errorsKeys, errors, opCode)

getOp(opCode) == getKeyByValue(opKeys, op, opCode)

getError(errorCode) == getKeyByValue(errorsKeys, errors, errorCode)

getLogType(logCode) == getKeyByValue(logsKeys, logs, logCode)

\* this._message.header.messageType (null when the header has none).
getMessageType(this) == Get(this.message.val.header, "messageType")

\* The messageType literal each builder writes.
literal ==
    [put |-> "PUT", putResponse |-> "PUT_RESPONSE", get |-> "GET",
     getResponse |-> "GET_RESPONSE", delete |-> "DELETE",
     deleteResponse |-> "DELETE_RESPONSE", noOp |-> "NOOP",
     noOpResponse |-> "NOOP_RESPONSE", flush |-> "FLUSHALLDATA",
     flushResponse |-> "FLUSHALLDATA_RESPONSE", setClusterVersion |-> "SETUP",
     setupResponse |-> "SETUP_RESPONSE", getLog |-> "GETLOG",
     getLogResponse |-> "GETLOG_RESPONSE"]

\* The code the schema gives the messageType literal of a builder.
MessageType(name) ==
    CASE name = "FLUSHALLDATA" -> op.FLUSH
      [] name = "FLUSHALLDATA_RESPONSE" -> op.FLUSH_RESPONSE
      [] name = "SETUP" -> op.SET_CLUSTER_VERSION
      [] OTHER -> op[name]

\* The code the schema gives the synchronization literal 'WRITETHROUGH'.
WRITETHROUGH == 1

\* A variant of requestHeader that increments the sequence it is given.
requestHeaderIncrementing(messageType, connectionID, incrementTCP, clusterVersion) ==
    [messageType |-> MessageType(messageType), connectionID |-> connectionID,
     sequence |-> incrementTCP + 1, clusterVersion |-> clusterVersion]

requestHeader(messageType, connectionID, incrementTCP, clusterVersion) ==
    [messageType |-> MessageType(messageType), connectionID |-> connectionID,
     sequence |-> incrementTCP, clusterVersion |-> clusterVersion]

\* A variant of ackSequence that copies the acknowledgement of the message
\* held instead of its sequence.
ackSequenceOfAck(this) == Get(this.message.val.header, "ackSequence")

\* ackSequence: this._message.header.sequence
ackSequence(this) == Get(this.message.val.header, "sequence")

responseHeader(this, messageType) ==
    ("messageType" :> MessageType(messageType)) @@ Opt("ackSequence", ackSequence(this))

status(response, errorMessage) ==
    [code |-> response, detailedMessage |-> errorMessage]

\* Reading this._message.header.sequence throws unless _message is an
\* object with a header.
hasHeader(this) ==
    this.message.type # "undefined" /\ "header" \in DOMAIN this.message.val

\* Reading this._message.body.keyValue.key throws unless body and keyValue
\* are set.
hasKeyValue(this) ==
    /\ this.message.type # "undefined"
    /\ "body" \in DOMAIN this.message.val
    /\ "keyValue" \in DOMAIN this.message.val.body

getLogCommand(incrementTCP, types, clusterVersion, connectionID) ==
    [header |-> requestHeader("GETLOG", connectionID, incrementTCP, clusterVersion),
     body |-> [getLog |-> [types |-> types]]]

getLogResponseCommand(this, response, errorMessage, responseLogs) ==
    [header |-> responseHeader(this, "GETLOG_RESPONSE"),
     body |-> [getLog |-> responseLogs],
     status |-> status(response, errorMessage)]

flushCommand(incrementTCP, clusterVersion, connectionID) ==
    [header |-> requestHeader("FLUSHALLDATA", connectionID, incrementTCP, clusterVersion),
     body |-> Empty]

flushResponseCommand(this, response, errorMessage) ==
    [header |-> responseHeader(this, "FLUSHALLDATA_RESPONSE"),
     status |-> status(response, errorMessage)]

setClusterVersionCommand(incrementTCP, clusterVersion, oldClusterVersion, connectionID) ==
    [header |-> requestHeader("SETUP", connectionID, incrementTCP, oldClusterVersion),
     body |-> [setup |-> [newClusterVersion |-> clusterVersion]]]

setupResponseCommand(this, response, errorMessage) ==
    [header |-> responseHeader(this, "SETUP_RESPONSE"),
     status |-> status(response, errorMessage)]

noOpCommand(incrementTCP, clusterVersion, connectionID) ==
    [header |-> requestHeader("NOOP", connectionID, incrementTCP, clusterVersion),
     body |-> Empty]

noOpResponseCommand(this, response, errorMessage) ==
    [header |-> responseHeader(this, "NOOP_RESPONSE"),
     status |-> status(response, errorMessage)]

putCommand(key, incrementTCP, dbVersion, newVersion, clusterVersion, connectionID) ==
    [header |-> requestHeader("PUT", connectionID, incrementTCP, clusterVersion),
     body |-> [keyValue |-> ("key" :> key) @@ Opt("newVersion", newVersion)
                            @@ Opt("dbVersion", dbVersion)
                            @@ ("synchronization" :> WRITETHROUGH)]]

putResponseCommand(this, response, errorMessage) ==
    [header |-> responseHeader(this, "PUT_RESPONSE"),
     body |-> [keyValue |-> Empty],
     status |-> status(response, errorMessage)]

getCommand(key, incrementTCP, clusterVersion, connectionID) ==
    [header |-> requestHeader("GET", connectionID, incrementTCP, clusterVersion),
     body |-> [keyValue |-> [key |-> key]]]

getResponseCommand(this, response, errorMessage, dbVersion) ==
    [header |-> responseHeader(this, "GET_RESPONSE"),
     body |-> [keyValue |-> Opt("key", Get(this.message.val.body.keyValue, "key"))
                            @@ Opt("dbVersion", dbVersion)],
     status |-> status(response, errorMessage)]

deleteCommand(key, incrementTCP, clusterVersion, dbVersion, connectionID) ==
    [header |-> requestHeader("DELETE", connectionID, incrementTCP, clusterVersion),
     body |-> [keyValue |-> ("key" :> key) @@ Opt("dbVersion", dbVersion)
                            @@ ("synchronization" :> WRITETHROUGH)]]

deleteResponseCommand(this, response, errorMessage) ==
    [header |-> responseHeader(this, "DELETE_RESPONSE"),
     body |-> [keyValue |-> Empty],
     status |-> status(response, errorMessage)]

(***************************************************************************)
(* The inputs the model draws from.                                        *)
(***************************************************************************)
Keys == { <<113>> }
Versions == { None, Some(<<49>>) }
\* (dbVersion, newVersion) of a put: a first write, and an overwrite.
PutVersions == { <<None, Some(<<49>>)>>, <<Some(<<49>>), Some(<<50>>)>> }
ClusterVersions == { 0 }
Sequences == 0..MaxSeq
Chunks == { <<79, 78>> }
Responses == { SUCCESS }
ErrorMessages == { <<69>> }
LogTypes == { <<1, 2>> }
ResponseLogs == { [types |-> <<1>>, messages |-> <<76>>] }

(***************************************************************************)
(* The peer: another Kinetic instance at the far end of the socket.  It    *)
(* builds a request, or decodes a request and builds the response, maybe   *)
(* sets a chunk, and sends.                                                *)
(***************************************************************************)
\* The peer after it decoded the request req.
peerThis(req) == setProtobuf(NewKinetic, Obj("Command", req))

PeerRequests ==
    UNION { { putCommand(k, s, None, Some(<<49>>), 0, 1),
              getCommand(k, s, 0, 1),
              deleteCommand(k, s, 0, Some(<<49>>), 1),
              noOpCommand(s, 0, 1),
              flushCommand(s, 0, 1),
              setClusterVersionCommand(s, 1, 0, 1),
              getLogCommand(s, <<1, 2>>, 0, 1) } : k \in Keys, s \in Sequences }

PeerResponses ==
    UNION { { putResponseCommand(peerThis(putCommand(k, s, None, None, 0, 1)), SUCCESS, e),
              getResponseCommand(peerThis(getCommand(k, s, 0, 1)), SUCCESS, e, Some(<<49>>)),
              deleteResponseCommand(peerThis(deleteCommand(k, s, 0, None, 1)), SUCCESS, e),
              noOpResponseCommand(peerThis(noOpCommand(s, 0, 1)), SUCCESS, e),
              flushResponseCommand(peerThis(flushCommand(s, 0, 1)), SUCCESS, e),
              setupResponseCommand(peerThis(setClusterVersionCommand(s, 1, 0, 1)), SUCCESS, e),
              getLogResponseCommand(peerThis(getLogCommand(s, <<1>>, 0, 1)), SUCCESS, e,
                                    [types |-> <<1>>, messages |-> <<76>>]) }
            : k \in Keys, s \in Sequences, e \in ErrorMessages }

\* PUT requests and GET responses carry a chunk.
peerChunk(cmd) ==
    IF cmd.header.messageType \in {op.PUT, op.GET_RESPONSE}
    THEN Some(CHOOSE c \in Chunks : TRUE) ELSE None

\* What the peer writes for cmd: the frame, with the command and the chunk
\* it was built from.
peerFrame(cmd) ==
    LET t == setMessage(NewKinetic, cmd)
        u == IF peerChunk(cmd) = None THEN t ELSE setChunk(t, peerChunk(cmd)[1])
    IN  [data |-> sendBytes(u), from |-> "peer", sentCmd |-> Some(cmd),
         sentChunk |-> peerChunk(cmd)]

PeerFrames == { peerFrame(cmd) : cmd \in PeerRequests \cup PeerResponses }

(***************************************************************************)
(* Frames that no builder wrote: another implementation, a faulty peer or  *)
(* the network put them on the socket.                                     *)
(***************************************************************************)
frame(version, pbMsgLen, chunkLen, envelope, tail) ==
    <<WriteInt8(version)>> \o WriteInt32BE(pbMsgLen) \o WriteInt32BE(chunkLen)
                           \o envelope \o tail

\* The envelope a builder makes of cmd.
envelopeOf(cmd) == setMessage(NewKinetic, cmd).message.val

\* An envelope around any command bytes, with the digest of those bytes.
envelopeAround(bytes) ==
    [authType |-> 1,
     hmacAuth |-> [identity |-> 1,
                   hmac |-> Hmac(Secret, WriteInt32BE(Len(bytes)) \o bytes)],
     commandBytes |-> bytes]

GoodCommand == putCommand(<<113>>, 0, None, Some(<<49>>), 0, 1)
GoodEnvelope == envelopeOf(GoodCommand)

\* Envelopes the grid of defects is made of: a builder's, one with a
\* digest that differs in one bit, and bytes that are no envelope.
GridEnvelopes ==
    { Encode("Message", GoodEnvelope),
      Encode("Message", [GoodEnvelope EXCEPT
                            !.hmacAuth.hmac = FlipBit(GoodEnvelope.hmacAuth.hmac, 0, 0)]),
      <<255>> }

\* Declared chunk length and the bytes that follow the envelope.
GridChunks == { <<0, <<>> >>, <<1, <<>> >>, <<0, <<7>> >>, <<2, <<7, 7>> >> }

\* Other envelopes, each in a frame with no further defect.
OddEnvelopes ==
    { \* no authType
      [hmacAuth |-> GoodEnvelope.hmacAuth, commandBytes |-> GoodEnvelope.commandBytes],
      \* an authType other than HMAC, and no digest
      [authType |-> 3, commandBytes |-> GoodEnvelope.commandBytes],
      \* HMAC authType without hmacAuth
      [authType |-> 1, commandBytes |-> GoodEnvelope.commandBytes],
      \* hmacAuth without hmac
      [authType |-> 1, hmacAuth |-> [identity |-> 1],
       commandBytes |-> GoodEnvelope.commandBytes],
      \* no commandBytes: the envelope decodes partially
      [authType |-> 1, hmacAuth |-> GoodEnvelope.hmacAuth],
      \* a command without header: the command decodes partially
      envelopeAround(Encode("Command", [body |-> Empty])),
      \* command bytes that do not decode
      envelopeAround(<<255>>),
      \* a command with a field this schema does not know (field 15)
      envelopeAround(GoodEnvelope.commandBytes \o <<120, 1>>) }

crafted(data) == [data |-> data, from |-> "crafted", sentCmd |-> None, sentChunk |-> None]

GoodFrame == frame(VERSION, Len(Encode("Message", GoodEnvelope)), 0,
                   Encode("Message", GoodEnvelope), <<>>)

CraftedFrames ==
    { crafted(frame(v, Len(e), c[1], e, c[2])) :
        v \in {VERSION, VERSION + 1}, e \in GridEnvelopes, c \in GridChunks }
    \cup
    { crafted(frame(VERSION, Len(Encode("Message", m)), 0, Encode("Message", m), <<>>)) :
        m \in OddEnvelopes }
    \cup
    { crafted(d) : d \in
        { <<>>, <<VERSION>>, <<VERSION + 1>>, SubSeq(GoodFrame, 1, HeaderLen - 1),
          \* declared lengths that are negative, or larger than the buffer
          frame(VERSION, -1, 0, Encode("Message", GoodEnvelope), <<>>),
          frame(VERSION, Len(Encode("Message", GoodEnvelope)), -1,
                Encode("Message", GoodEnvelope), <<>>),
          frame(VERSION, Len(Encode("Message", GoodEnvelope)) + 5, 0,
                Encode("Message", GoodEnvelope), <<>>) } }

\* Type.decode(buf): kind "ok" with the message, kind "partial" with the
\* structure a fault carries (e.decoded), or kind "fault".
Decode(type, buf) == DecFields(type, buf, 1, Empty)

\* hmacIntegrity(hmac): ok is TRUE where the code returns true.
hmacIntegrity(this, hmac) ==
    IF ~hmac.def \/ ~this.hmac.def THEN [this |-> this, ok |-> FALSE]
    ELSE LET t == setHMAC(this, Integrity(this))
         IN  [this |-> t, ok |-> diff(hmac.buf, t.hmac.buf)]

(***************************************************************************)
(* parse(data).  Besides the result, the stages the call went through are  *)
(* recorded: "version", "decode", "chunk", "hmac".                         *)
(***************************************************************************)
Staged(r, stages) ==
    [this |-> r.this, threw |-> r.threw, ret |-> r.ret, stages |-> stages]

\* this._cmd.authType === 1 && this.hmacIntegrity(
\*     this.getSlice(this._cmd.hmacAuth.hmac)) !== true, and the return.
parseIntegrity(this) ==
    IF this.cmd.type = "undefined" THEN Thrown(this)
    ELSE IF Get(this.cmd.val, "authType") # Some(1) THEN Returned(this, SUCCESS)
    ELSE IF "hmacAuth" \notin DOMAIN this.cmd.val THEN Thrown(this)
    ELSE IF "hmac" \notin DOMAIN this.cmd.val.hmacAuth THEN Thrown(this)
    ELSE LET r == hmacIntegrity(this, Buf(this.cmd.val.hmacAuth.hmac))
         IN  IF ~r.ok THEN Returned(r.this, HMAC_FAILURE)
             ELSE Returned(r.this, SUCCESS)

\* setChunk(data.slice(...)), the chunk-length check and what follows it.
parseChunk(this, data, pbMsgLen, chunkLen) ==
    LET t == setChunk(this, Slice(data, pbMsgLen + HeaderLen,
                                  chunkLen + pbMsgLen + HeaderLen))
    IN  IF getChunkSize(t) # chunkLen
        THEN Staged(Returned(t, DATA_ERROR), <<"version", "decode", "chunk">>)
        ELSE Staged(parseIntegrity(t), <<"version", "decode", "chunk", "hmac">>)

\* A variant of the try block that gives up on every fault, also on one
\* that carries a structure.
parseDecodeStrict(this, data, pbMsgLen) ==
    LET env == Decode("Message", Slice(data, HeaderLen, HeaderLen + pbMsgLen)) IN
    IF env.kind # "ok" THEN [this |-> this, goes |-> FALSE]
    ELSE LET t == [this EXCEPT !.cmd = Obj("Message", env.val)]
             c == Decode("Command", env.val.commandBytes)
         IN  IF c.kind # "ok" THEN [this |-> t, goes |-> FALSE]
             ELSE [this |-> setProtobuf(t, Obj("Command", c.val)), goes |-> TRUE]

\* The try block: the instance after it, and whether parse goes on.
parseDecode(this, data, pbMsgLen) ==
    LET env == Decode("Message", Slice(data, HeaderLen, HeaderLen + pbMsgLen)) IN
    IF env.kind = "fault" THEN [this |-> this, goes |-> FALSE]
    ELSE IF env.kind = "partial"
    THEN [this |-> setProtobuf(this, Obj("Message", env.val)), goes |-> TRUE]
    ELSE LET t == [this EXCEPT !.cmd = Obj("Message", env.val)]
             c == IF "commandBytes" \in DOMAIN env.val
                  THEN Decode("Command", env.val.commandBytes)
                  ELSE Fault
         IN  IF c.kind = "fault" THEN [this |-> t, goes |-> FALSE]
             ELSE [this |-> setProtobuf(t, Obj("Command", c.val)), goes |-> TRUE]

parse(this, data) ==
    IF Len(data) < HeaderLen THEN Staged(Thrown(this), <<>>)
    ELSE
    LET version == ReadInt8(data, 0)
        pbMsgLen == ReadInt32BE(data, 1)
        chunkLen == ReadInt32BE(data, 5)
    IN
    IF version # VERSION
    THEN Staged(Returned(this, VERSION_FAILURE), <<"version">>)
    ELSE LET d == parseDecode(this, data, pbMsgLen) IN
         IF ~d.goes
         THEN Staged(Returned(d.this, INTERNAL_ERROR), <<"version", "decode">>)
         ELSE parseChunk(d.this, data, pbMsgLen, chunkLen)

(***************************************************************************)
(* The listing algorithm of src/lib/algos/list/delimiter.js.  A string is  *)
(* the sequence of its code units; undefined is None and a string s is     *)
(* Some(s).  The value of an entry is the JSON text of an object, modelled *)
(* by the object it denotes.                                               *)
(***************************************************************************)
\* String(undefined), the code units of 'undefined'.
UndefinedText == <<117, 110, 100, 101, 102, 105, 110, 101, 100>>

\* The conversion of an argument to a string.
Text(v) == IF v = None THEN UndefinedText ELSE v[1]

\* A string or undefined as a condition: undefined and '' are false.
Truthy(v) == v # None /\ v[1] # <<>>

\* key.startsWith(searchString)
startsWith(key, searchString) ==
    LET str == Text(searchString)
    IN  Len(str) <= Len(key) /\ SubSeq(key, 1, Len(str)) = str

\* key.indexOf(str, index): the first position at or after index where str
\* occurs, or -1.
indexOf(key, str, index) ==
    LET occurs == { i \in Clamp(Len(key), Max(index, 0)) .. (Len(key) - Len(str)) :
                        SubSeq(key, i + 1, i + Len(str)) = str }
    IN  IF occurs = {} THEN -1
        ELSE CHOOSE i \in occurs : \A j \in occurs : i <= j

\* key.substring(start, end)
substring(key, start, end) ==
    LET from == Min(Max(start, 0), Len(key))
        to == Min(Max(end, 0), Len(key))
    IN  SubSeq(key, Min(from, to) + 1, Max(from, to))

nextDelimiter(key, delimiter, index) == indexOf(key, delimiter, index)

getCommonPrefix(key, delimiter, delimiterIndex) ==
    substring(key, 0, delimiterIndex + Len(delimiter))

\* The default of maxKeys.
DefaultMaxKeys == 1000

\* A variant of the constructor that drops the marker.
newDelimiterUnmarked(parameters) ==
    [CommonPrefixes |-> <<>>, Contents |-> <<>>, IsTruncated |-> FALSE,
     NextMarker |-> None, keys |-> 0,
     delimiter |-> parameters.delimiter, prefix |-> parameters.start,
     maxKeys |-> IF parameters.maxKeys \in {None, Some(0)} THEN DefaultMaxKeys
                 ELSE parameters.maxKeys[1]]

\* new Delimiter(parameters)
newDelimiter(parameters) ==
    [CommonPrefixes |-> <<>>, Contents |-> <<>>, IsTruncated |-> FALSE,
     NextMarker |-> parameters.gt, keys |-> 0,
     delimiter |-> parameters.delimiter, prefix |-> parameters.start,
     maxKeys |-> IF parameters.maxKeys \in {None, Some(0)} THEN DefaultMaxKeys
                 ELSE parameters.maxKeys[1]]

\* The entry addContents pushes for a key and the object tmp parsed of its
\* value.
content(key, tmp) ==
    [key |-> key,
     value |-> [Size |-> Get(tmp, "content-length"),
                ETag |-> Get(tmp, "content-md5"),
                LastModified |-> Get(tmp, "last-modified"),
                Owner |-> [DisplayName |-> Get(tmp, "owner-display-name"),
                           ID |-> Get(tmp, "owner-id")],
                StorageClass |-> Get(tmp, "x-amz-storage-class"),
                Initiated |-> Get(tmp, "initiated"),
                Initiator |-> Get(tmp, "initiator"),
                EventualStorageBucket |-> Get(tmp, "eventualStorageBucket"),
                partLocations |-> Get(tmp, "partLocations"),
                creationDate |-> Get(tmp, "creationDate")]]

addContents(this, key, value) ==
    [this EXCEPT !.Contents = Append(@, content(key, value)),
                 !.NextMarker = Some(key),
                 !.keys = @ + 1]

\* CommonPrefixes.indexOf(commonPrefix) is not -1.
Includes(prefixes, commonPrefix) ==
    \E i \in DOMAIN prefixes : prefixes[i] = commonPrefix

\* A variant of addCommonPrefix that does not look the prefix up in
\* CommonPrefixes.
addCommonPrefixAgain(this, key, index) ==
    LET commonPrefix == getCommonPrefix(key, this.delimiter[1], index)
    IN  IF this.NextMarker # Some(commonPrefix)
        THEN [this EXCEPT !.CommonPrefixes = Append(@, commonPrefix),
                          !.NextMarker = Some(commonPrefix),
                          !.keys = @ + 1]
        ELSE this

addCommonPrefix(this, key, index) ==
    LET commonPrefix == getCommonPrefix(key, this.delimiter[1], index)
    IN  IF ~Includes(this.CommonPrefixes, commonPrefix)
           /\ this.NextMarker # Some(commonPrefix)
        THEN [this EXCEPT !.CommonPrefixes = Append(@, commonPrefix),
                          !.NextMarker = Some(commonPrefix),
                          !.keys = @ + 1]
        ELSE this

\* this.prefix ? this.prefix.length : 0
baseIndex(this) == IF Truthy(this.prefix) THEN Len(this.prefix[1]) ELSE 0

\* A variant of the condition that holds for every key outside the prefix.
skipsOutside(this, key) ==
    /\ Truthy(this.prefix)
    /\ ~startsWith(key, this.prefix)

\* The condition of lines 112-113: the key is outside the prefix and starts
\* with NextMarker.
skips(this, key) ==
    /\ Truthy(this.prefix)
    /\ ~startsWith(key, this.prefix)
    /\ startsWith(key, this.NextMarker)

\* A variant of filter that stops one entry after maxKeys.
filterPastLimit(this, obj) ==
    IF this.keys > this.maxKeys
    THEN Returned([this EXCEPT !.IsTruncated = this.maxKeys > 0], FALSE)
    ELSE IF skips(this, obj.key)
    THEN Returned(this, TRUE)
    ELSE IF Truthy(this.delimiter)
    THEN LET delimiterIndex == nextDelimiter(obj.key, this.delimiter[1], baseIndex(this))
         IN  IF delimiterIndex = -1
             THEN Returned(addContents(this, obj.key, obj.value), TRUE)
             ELSE Returned(addCommonPrefix(this, obj.key, delimiterIndex), TRUE)
    ELSE Returned(addContents(this, obj.key, obj.value), TRUE)

\* filter(obj): the instance after the call and the value returned.
filter(this, obj) ==
    IF this.keys >= this.maxKeys
    THEN Returned([this EXCEPT !.IsTruncated = this.maxKeys > 0], FALSE)
    ELSE IF skips(this, obj.key)
    THEN Returned(this, TRUE)
    ELSE IF Truthy(this.delimiter)
    THEN LET delimiterIndex == nextDelimiter(obj.key, this.delimiter[1], baseIndex(this))
         IN  IF delimiterIndex = -1
             THEN Returned(addContents(this, obj.key, obj.value), TRUE)
             ELSE Returned(addCommonPrefix(this, obj.key, delimiterIndex), TRUE)
    ELSE Returned(addContents(this, obj.key, obj.value), TRUE)

\* A variant of result that shows NextMarker whether truncated or not.
resultWithMarker(this) ==
    [CommonPrefixes |-> this.CommonPrefixes, Contents |-> this.Contents,
     IsTruncated |-> this.IsTruncated, NextMarker |-> this.NextMarker,
     Delimiter |-> this.delimiter]

result(this) ==
    [CommonPrefixes |-> this.CommonPrefixes, Contents |-> this.Contents,
     IsTruncated |-> this.IsTruncated,
     NextMarker |-> IF this.IsTruncated THEN this.NextMarker ELSE None,
     Delimiter |-> this.delimiter]

(***************************************************************************)
(* The state: the fields of the instance, then what the last operation did *)
(* and what the caller and the clock did around it.                        *)
(***************************************************************************)
VARIABLES
    _message,    \* the object held: undefined, an envelope or a command
    _chunk,      \* the chunk held, or undefined
    _hmac,       \* the digest last computed, or undefined
    _cmd,        \* the envelope last decoded by parse, or undefined
    outcome,     \* the last operation: its name, result and input
    built,       \* the command in the envelope held, when a builder made it
    attached,    \* the caller set a chunk since the last send
    decoded,     \* the command the sender built of the frame parse last decoded
    nops,        \* operations performed
    clock,       \* the last value of (new Date).getTime()
    listing,     \* the Delimiter instance of the page being listed
    keyspace,    \* the keys of the bucket, in the order they are read
    marker,      \* parameters.gt of the page: the caller passes keys above it
    limit,       \* parameters.maxKeys as the caller gave it, or undefined
    fed,         \* entries of the page passed to filter so far
    stopped,     \* filter returned false
    lastAdded,   \* the entry the page listed last, or undefined
    earlier,     \* the entries listed by the pages before
    page,        \* the number of the page
    given0,      \* the first buffer a caller compares
    given1,      \* the second buffer a caller compares
    same         \* what diff returned for them, or undefined

kineticVars == <<_message, _chunk, _hmac, _cmd, outcome, built, attached, decoded, nops, clock>>

listingVars == <<listing, keyspace, marker, limit, fed, stopped, lastAdded, earlier, page>>

diffVars == <<given0, given1, same>>

vars == <<kineticVars, listingVars, diffVars>>

This == [message |-> _message, chunk |-> _chunk, hmac |-> _hmac, cmd |-> _cmd]

Outcome(name, r, stages, input) ==
    [op |-> name, threw |-> r.threw, ret |-> r.ret, stages |-> stages,
     data |-> input.data, from |-> input.from,
     sentCmd |-> input.sentCmd, sentChunk |-> input.sentChunk, answers |-> None,
     incrementTCP |-> None]

NoInput == [data |-> <<>>, from |-> "none", sentCmd |-> None, sentChunk |-> None]

Becomes(this) ==
    /\ _message' = this.message
    /\ _chunk' = this.chunk
    /\ _hmac' = this.hmac
    /\ _cmd' = this.cmd

InitKinetic ==
    /\ _message = NewKinetic.message
    /\ _chunk = NewKinetic.chunk
    /\ _hmac = NewKinetic.hmac
    /\ _cmd = NewKinetic.cmd
    /\ outcome = Outcome("new", Returned(NewKinetic, 0), <<>>, NoInput)
    /\ built = None
    /\ attached = FALSE
    /\ decoded = None
    /\ nops = 0
    /\ clock = 1

\* No listing is going on: a Delimiter of no parameters and no keys.
NoParameters == [gt |-> None, delimiter |-> None, start |-> None, maxKeys |-> None]

InitListing(parameters, files) ==
    /\ listing = newDelimiter(parameters)
    /\ keyspace = files
    /\ marker = parameters.gt
    /\ limit = parameters.maxKeys
    /\ fed = 0
    /\ stopped = FALSE
    /\ lastAdded = None
    /\ earlier = {}
    /\ page = 1

\* The buffers a caller is about to compare.
InitDiffing(buf0, buf1) ==
    /\ given0 = buf0
    /\ given1 = buf1
    /\ same = None

Init == InitKinetic /\ InitListing(NoParameters, <<>>) /\ InitDiffing(<<>>, <<>>)

(***************************************************************************)
(* The operations of the instance.                                         *)
(***************************************************************************)
\* (new Date).getTime() now: the clock does not run backwards.
Times == { t \in 1..MaxClock : clock <= t /\ t <= clock + 1 }

\* A call of a builder: it throws before it changes anything when reading
\* its fields of _message throws, and otherwise sets the envelope.
Builder(name, reads, command, now, incrementTCP) ==
    /\ nops < MaxOps
    /\ IF reads
       THEN \E c \in {command} :
                /\ \E this \in {setMessage(This, c)} : Becomes(this)
                /\ outcome' = [Outcome(name, Returned(This, 0), <<>>, NoInput)
                                  EXCEPT !.answers = decoded,
                                         !.incrementTCP = incrementTCP]
                /\ built' = Some(c)
                /\ decoded' = None
       ELSE /\ Becomes(This)
            /\ outcome' = Outcome(name, Thrown(This), <<>>, NoInput)
            /\ UNCHANGED <<built, decoded>>
    /\ clock' = now
    /\ nops' = nops + 1
    /\ UNCHANGED <<attached, listingVars, diffVars>>

GetLog ==
    \E s \in Sequences, types \in LogTypes, cv \in ClusterVersions, now \in Times :
        Builder("getLog", TRUE, getLogCommand(s, types, cv, now), now, Some(s))

GetLogResponse ==
    \E response \in Responses, e \in ErrorMessages, responseLogs \in ResponseLogs :
        Builder("getLogResponse", hasHeader(This),
                getLogResponseCommand(This, response, e, responseLogs), clock, None)

Flush ==
    \E s \in Sequences, cv \in ClusterVersions, now \in Times :
        Builder("flush", TRUE, flushCommand(s, cv, now), now, Some(s))

FlushResponse ==
    \E response \in Responses, e \in ErrorMessages :
        Builder("flushResponse", hasHeader(This),
                flushResponseCommand(This, response, e), clock, None)

SetClusterVersion ==
    \E s \in Sequences, cv \in ClusterVersions, old \in ClusterVersions, now \in Times :
        Builder("setClusterVersion", TRUE, setClusterVersionCommand(s, cv, old, now), now, Some(s))

SetupResponse ==
    \E response \in Responses, e \in ErrorMessages :
        Builder("setupResponse", hasHeader(This),
                setupResponseCommand(This, response, e), clock, None)

NoOp ==
    \E s \in Sequences, cv \in ClusterVersions, now \in Times :
        Builder("noOp", TRUE, noOpCommand(s, cv, now), now, Some(s))

NoOpResponse ==
    \E response \in Responses, e \in ErrorMessages :
        Builder("noOpResponse", hasHeader(This),
                noOpResponseCommand(This, response, e), clock, None)

Put ==
    \E key \in Keys, s \in Sequences, v \in PutVersions,
       cv \in ClusterVersions, now \in Times :
        Builder("put", TRUE, putCommand(key, s, v[1], v[2], cv, now), now, Some(s))

PutResponse ==
    \E response \in Responses, e \in ErrorMessages :
        Builder("putResponse", hasHeader(This),
                putResponseCommand(This, response, e), clock, None)

Get_ ==
    \E key \in Keys, s \in Sequences, cv \in ClusterVersions, now \in Times :
        Builder("get", TRUE, getCommand(key, s, cv, now), now, Some(s))

GetResponse ==
    \E response \in Responses, e \in ErrorMessages, dbv \in Versions :
        Builder("getResponse", hasHeader(This) /\ hasKeyValue(This),
                getResponseCommand(This, response, e, dbv), clock, None)

Delete ==
    \E key \in Keys, s \in Sequences, cv \in ClusterVersions, dbv \in Versions,
       now \in Times :
        Builder("delete", TRUE, deleteCommand(key, s, cv, dbv, now), now, Some(s))

DeleteResponse ==
    \E response \in Responses, e \in ErrorMessages :
        Builder("deleteResponse", hasHeader(This),
                deleteResponseCommand(This, response, e), clock, None)

SetChunk ==
    /\ nops < MaxOps
    /\ \E chunk \in Chunks :
        /\ Becomes(setChunk(This, chunk))
        /\ outcome' = Outcome("setChunk", Returned(This, 0), <<>>, NoInput)
    /\ attached' = TRUE
    /\ nops' = nops + 1
    /\ UNCHANGED <<built, decoded, clock, listingVars, diffVars>>

\* send(sock): getProtobufSize throws when no message is held; otherwise
\* the frame is written and SUCCESS returned.
Send ==
    /\ nops < MaxOps
    /\ IF _message.type = "undefined"
       THEN outcome' = Outcome("send", Thrown(This), <<>>, NoInput)
       ELSE outcome' = Outcome("send", Returned(This, SUCCESS), <<>>,
                               [data |-> sendBytes(This), from |-> "send",
                                sentCmd |-> built,
                                sentChunk |-> IF attached THEN Some(_chunk.buf) ELSE None])
    /\ attached' = (attached /\ _message.type = "undefined")
    /\ nops' = nops + 1
    /\ UNCHANGED <<_message, _chunk, _hmac, _cmd, built, decoded, clock, listingVars, diffVars>>

\* The frame the instance wrote last, when the socket hands it back.
Loopback ==
    IF outcome.op = "send" /\ ~outcome.threw
    THEN {[data |-> outcome.data, from |-> "self",
           sentCmd |-> outcome.sentCmd, sentChunk |-> outcome.sentChunk]}
    ELSE {}

Ran(stages, stage) == \E i \in DOMAIN stages : stages[i] = stage

\* parse(data) of the frame f.
Parsing(f) ==
    /\ nops < MaxOps
    /\ \E r \in {parse(This, f.data)} :
        /\ Becomes(r.this)
        /\ outcome' = Outcome("parse", r, r.stages, f)
        /\ built' = IF r.this.message = _message THEN built ELSE None
        /\ decoded' = IF Ran(r.stages, "chunk") THEN f.sentCmd ELSE decoded
    /\ nops' = nops + 1
    /\ UNCHANGED <<attached, clock, listingVars, diffVars>>

\* parse(data) of a frame the peer wrote, or of the one just written.
Parse == \E f \in PeerFrames \cup Loopback : Parsing(f)

\* parse(data) of a frame that no builder wrote.
ParseCrafted == \E f \in CraftedFrames : Parsing(f)

\* The bytes of the envelope region of a frame, numbered from 0.
EnvelopeBytes(data) == HeaderLen .. (HeaderLen + ReadInt32BE(data, 1) - 1)

\* parse(data) of the frame just sent by a builder and send, after one bit
\* inside its envelope region was flipped on the way.
ParseTampered ==
    /\ outcome.op = "send" /\ ~outcome.threw /\ outcome.sentCmd # None
    /\ \E i \in EnvelopeBytes(outcome.data), k \in 0..7 :
        Parsing([data |-> FlipBit(outcome.data, i, k), from |-> "tampered",
                 sentCmd |-> outcome.sentCmd, sentChunk |-> outcome.sentChunk])

Next ==
    \/ GetLog \/ GetLogResponse \/ Flush \/ FlushResponse
    \/ SetClusterVersion \/ SetupResponse \/ NoOp \/ NoOpResponse
    \/ Put \/ PutResponse \/ Get_ \/ GetResponse \/ Delete \/ DeleteResponse
    \/ SetChunk \/ Send \/ Parse

Spec == Init /\ [][Next]_vars

\* The instance as simulTest.js drives it (setChunk, put, send, parse), on a
\* socket that delivers crafted and altered frames.
NextWire == Put \/ SetChunk \/ Send \/ ParseCrafted \/ ParseTampered

SpecWire == Init /\ [][NextWire]_vars

(***************************************************************************)
(* Listing a bucket page by page, as the unit test drives the Delimiter:   *)
(* the caller passes the keys above the marker to filter until it returns  *)
(* false or the keys end, reads result(), and asks for the next page with  *)
(* the NextMarker of a truncated one.                                      *)
(***************************************************************************)
\* The keys of the bucket: 'a', 'a/a', 'a/b/a', 'a/b/b', 'ab', 'b/a'.
Files ==
    << <<97>>, <<97, 47, 97>>, <<97, 47, 98, 47, 97>>, <<97, 47, 98, 47, 98>>,
       <<97, 98>>, <<98, 47, 97>> >>

\* The files of the positions in S from position i on, in order.
RECURSIVE Pick(_, _)
Pick(S, i) ==
    IF i > Len(Files) THEN <<>>
    ELSE (IF i \in S THEN <<Files[i]>> ELSE <<>>) \o Pick(S, i + 1)

\* What a caller may pass: any sorted selection of the files, and any
\* sequence of up to MaxShuffled files, in any order and with repeats.
Buckets ==
    { Pick(S, 1) : S \in SUBSET (1..Len(Files)) }
        \cup UNION { [1..len -> { Files[i] : i \in 1..Len(Files) }] : len \in 1..MaxShuffled }

\* delimiter: none, '/' and '/b'.
Delimiters == { None, Some(<<47>>), Some(<<47, 98>>) }

\* start: none, 'a/' and 'b'.
Starts == { None, Some(<<97, 47>>), Some(<<98>>) }

\* gt of the first page: none or 'a/'.
Markers == { None, Some(<<97, 47>>) }

MaxKeysGiven == { None } \cup { Some(n) : n \in (-1)..MaxMaxKeys }

Parameters ==
    [gt : Markers, delimiter : Delimiters, start : Starts, maxKeys : MaxKeysGiven]

\* s < t as strings: by the first code unit that differs, a prefix first.
Less(s, t) ==
    \E m \in 1..Len(t) :
        /\ \A n \in 1..(m - 1) : n <= Len(s) /\ s[n] = t[n]
        /\ (IF m > Len(s) THEN TRUE ELSE s[m] < t[m])

Sorted(files) == \A x \in 1..(Len(files) - 1) : Less(files[x], files[x + 1])

\* The filter of the test: e.key > input.gt when a marker is given.
Above(key) == IF marker = None THEN TRUE ELSE Less(marker[1], key)

\* The entries the caller passes to filter on this page, value '{}'.
passed ==
    LET above == SelectSeq(keyspace, Above)
    IN  [i \in DOMAIN above |-> [key |-> above[i], value |-> Empty]]

\* The entries of a listing: its keys and its common prefixes.
Entries(this) ==
    { <<"key", this.Contents[i].key>> : i \in DOMAIN this.Contents }
        \cup { <<"prefix", this.CommonPrefixes[i]>> : i \in DOMAIN this.CommonPrefixes }

\* The entry a call of filter added, if it added one.
Added(before, after) ==
    IF Len(after.Contents) > Len(before.Contents)
    THEN Some(<<"key", after.Contents[Len(after.Contents)].key>>)
    ELSE IF Len(after.CommonPrefixes) > Len(before.CommonPrefixes)
    THEN Some(<<"prefix", after.CommonPrefixes[Len(after.CommonPrefixes)]>>)
    ELSE None

InitList ==
    /\ InitKinetic
    /\ \E parameters \in Parameters, files \in Buckets : InitListing(parameters, files)
    /\ InitDiffing(<<>>, <<>>)

\* The caller passes the next entry to filter.
Filter ==
    /\ ~stopped
    /\ fed < Len(passed)
    /\ \E r \in {filter(listing, passed[fed + 1])} :
        /\ listing' = r.this
        /\ stopped' = ~r.ret
        /\ lastAdded' = IF Added(listing, r.this) = None THEN lastAdded
                        ELSE Added(listing, r.this)
    /\ fed' = fed + 1
    /\ UNCHANGED <<keyspace, marker, limit, earlier, page, kineticVars, diffVars>>

\* The page is over: filter returned false or the entries ended.
Done == stopped \/ fed = Len(passed)

\* The caller asks for the page after a truncated one, with its NextMarker.
NextPage ==
    /\ Done
    /\ Sorted(keyspace)
    /\ page < MaxPages
    /\ result(listing).IsTruncated
    /\ listing' = newDelimiter([gt |-> result(listing).NextMarker,
                                delimiter |-> listing.delimiter,
                                start |-> listing.prefix,
                                maxKeys |-> Some(listing.maxKeys)])
    /\ marker' = result(listing).NextMarker
    /\ fed' = 0
    /\ stopped' = FALSE
    /\ lastAdded' = None
    /\ earlier' = earlier \cup Entries(listing)
    /\ page' = page + 1
    /\ UNCHANGED <<keyspace, limit, kineticVars, diffVars>>

NextList == Filter \/ NextPage

SpecList == InitList /\ [][NextList]_vars

(***************************************************************************)
(* diff(buf0, buf1) on the buffers a caller passes.                        *)
(***************************************************************************)
\* The buffers of at most MaxBufLen bytes, each the lowest or the highest.
Buffers == UNION { [1..n -> {0, 255}] : n \in 0..MaxBufLen }

InitDiff ==
    /\ InitKinetic
    /\ InitListing(NoParameters, <<>>)
    /\ \E buf0 \in Buffers, buf1 \in Buffers : InitDiffing(buf0, buf1)

\* this.diff(buf0, buf1)
Diff ==
    /\ same = None
    /\ same' = Some(diff(given0, given1))
    /\ UNCHANGED <<given0, given1, kineticVars, listingVars>>

NextDiff == Diff

SpecDiff == InitDiff /\ [][NextDiff]_vars

(***************************************************************************)
(* Properties of parse on crafted and altered frames (SpecWire).           *)
(***************************************************************************)
Parsed == outcome.op = "parse"

ParseResults == {SUCCESS, VERSION_FAILURE, INTERNAL_ERROR, DATA_ERROR, HMAC_FAILURE}

ParseFaults == ParseResults \ {SUCCESS}

\* What a frame is, told from its bytes alone.
HasVersionByte(data) == Len(data) >= 1

VersionDefect(data) == HasVersionByte(data) /\ ReadInt8(data, 0) # VERSION

Undersized(data) == Len(data) < HeaderLen

DeclaredEnvelope(data) == Slice(data, HeaderLen, HeaderLen + ReadInt32BE(data, 1))

\* The bytes that follow the envelope region.
Trailing(data) == Len(data) - HeaderLen - ReadInt32BE(data, 1)

\* The envelope region lies in the buffer and decodes, and so does the
\* command in it.
Decodable(data) ==
    /\ ~Undersized(data)
    /\ ReadInt32BE(data, 1) \in 0..(Len(data) - HeaderLen)
    /\ Decode("Message", DeclaredEnvelope(data)).kind = "ok"
    /\ Decode("Command", Decode("Message", DeclaredEnvelope(data)).val.commandBytes).kind = "ok"

DecodeDefect(data) ==
    \/ Undersized(data)
    \/ Decode("Message", DeclaredEnvelope(data)).kind = "fault"
    \/ /\ Decode("Message", DeclaredEnvelope(data)).kind = "ok"
       /\ Decode("Command",
                 Decode("Message", DeclaredEnvelope(data)).val.commandBytes).kind = "fault"

ChunkShort(data) == ~Undersized(data) /\ Trailing(data) < ReadInt32BE(data, 5)

\* C1: parse returns VERSION_FAILURE for every frame whose version byte is
\* not the supported version, whatever the rest of the frame holds and
\* however long the buffer is.
C1_VersionGate ==
    (Parsed /\ VersionDefect(outcome.data))
        => (~outcome.threw /\ outcome.ret = VERSION_FAILURE)

\* C2: for a frame of the supported version with a decodable envelope,
\* parse returns DATA_ERROR whenever the declared chunk length differs from
\* the number of bytes that follow the envelope region, be they fewer or
\* more than declared.
C2_LengthGate ==
    (/\ Parsed
     /\ ~VersionDefect(outcome.data)
     /\ Decodable(outcome.data)
     /\ ReadInt32BE(outcome.data, 5) # Trailing(outcome.data))
        => (~outcome.threw /\ outcome.ret = DATA_ERROR)

\* C3: for every input buffer parse returns one of SUCCESS, VERSION_FAILURE,
\* INTERNAL_ERROR, DATA_ERROR and HMAC_FAILURE, and never throws.
C3_ParseReturnsACode ==
    Parsed => (~outcome.threw /\ outcome.ret \in ParseResults)

\* The defects of a frame that the first three stages look for.
Defects(data) ==
    { stage \in {"version", "decode", "chunk"} :
        \/ stage = "version" /\ VersionDefect(data)
        \/ stage = "decode" /\ DecodeDefect(data)
        \/ stage = "chunk" /\ ChunkShort(data) }

\* The result of the earliest stage that fails on data, and the stages run.
FirstFault(data) ==
    IF "version" \in Defects(data) THEN VERSION_FAILURE
    ELSE IF "decode" \in Defects(data) THEN INTERNAL_ERROR
    ELSE DATA_ERROR

StagesOf(fault) ==
    IF fault = VERSION_FAILURE THEN <<"version">>
    ELSE IF fault = INTERNAL_ERROR THEN <<"version", "decode">>
    ELSE <<"version", "decode", "chunk">>

\* C4: for a frame with several defects parse returns the fault of the
\* earliest failing stage in the order version, decode, chunk length,
\* integrity, and runs no stage after the one that failed.
C4_FirstFault ==
    (Parsed /\ Cardinality(Defects(outcome.data)) >= 2)
        => /\ ~outcome.threw
           /\ outcome.ret = FirstFault(outcome.data)
           /\ outcome.stages = StagesOf(FirstFault(outcome.data))

\* C6: a frame a builder and send produced, with one bit flipped inside its
\* envelope region and its header unchanged, makes parse return
\* HMAC_FAILURE; in particular parse does not accept it with SUCCESS.  The
\* formula states the part that follows "in particular".
C6_TamperNotAccepted ==
    (Parsed /\ outcome.from = "tampered")
        => (~outcome.threw /\ outcome.ret # SUCCESS)

\* C10: after parse returns VERSION_FAILURE, INTERNAL_ERROR, DATA_ERROR or
\* HMAC_FAILURE the instance holds the message and the chunk it held before
\* that parse.
C10_FaultKeepsHeld ==
    [][(/\ outcome'.op = "parse"
        /\ ~outcome'.threw
        /\ outcome'.ret \in ParseFaults)
          => (_message' = _message /\ _chunk' = _chunk)]_vars

(***************************************************************************)
(* Properties of the instance among builders, send and a peer (Spec).      *)
(***************************************************************************)
\* The chunk a receiver should hold for a frame sent with sentChunk.
ChunkOf(sentChunk) == Buf(IF sentChunk = None THEN <<>> ELSE sentChunk[1])

\* C5: parsing the bytes send wrote for a request or response a builder
\* built returns SUCCESS, and yields the command that was built and the
\* chunk that was attached (no chunk bytes when none was).
C5_RoundTrip ==
    (Parsed /\ outcome.from \in {"peer", "self"} /\ outcome.sentCmd # None)
        => /\ ~outcome.threw /\ outcome.ret = SUCCESS
           /\ _message = Obj("Command", outcome.sentCmd[1])
           /\ _chunk = ChunkOf(outcome.sentChunk)

\* C7: what parse(data) returns and leaves to the accessors depends on data
\* only: it is what a freshly constructed instance returns and holds.
C7_DependsOnDataOnly ==
    Parsed =>
        \A fresh \in {parse(NewKinetic, outcome.data)} :
            /\ outcome.threw = fresh.threw
            /\ outcome.ret = fresh.ret
            /\ _message = fresh.this.message
            /\ _chunk = fresh.this.chunk

ResponseBuilders ==
    {"putResponse", "getResponse", "deleteResponse", "noOpResponse",
     "flushResponse", "setupResponse", "getLogResponse"}

\* A response builder has built a response to a message parse decoded.
Responded ==
    outcome.op \in ResponseBuilders /\ ~outcome.threw /\ outcome.answers # None

\* C8: a response built by any response builder after parse decoded a
\* request carries, as header.ackSequence, the header.sequence the sender
\* of that request gave it.
C8_Correlation ==
    Responded =>
        /\ built # None
        /\ Get(built[1].header, "ackSequence")
             = Get(outcome.answers[1].header, "sequence")

\* C8 happens: a response to a decoded request of sequence MaxSeq.
C8_Witness ==
    /\ Responded
    /\ Get(outcome.answers[1].header, "sequence") = Some(MaxSeq)
    /\ outcome.answers[1].header.messageType = op.DELETE
    /\ outcome.op = "deleteResponse"

\* C9: the frame send writes for a built message to which no chunk was
\* attached declares chunk length 0 and ends with the envelope, whatever
\* the instance did before.
C9_NoChunkNoBytes ==
    (/\ outcome.op = "send" /\ ~outcome.threw
     /\ outcome.sentCmd # None
     /\ outcome.sentChunk = None)
        => /\ ReadInt32BE(outcome.data, 5) = 0
           /\ Len(outcome.data) = HeaderLen + ReadInt32BE(outcome.data, 1)

\* send has written a frame.
Sent == outcome.op = "send" /\ ~outcome.threw

\* The chunk bytes the instance holds (none when no chunk is held).
HeldChunk == IF _chunk.def THEN _chunk.buf ELSE <<>>

\* C11: every frame send writes has the version byte at offset 0, at
\* offset 1 the big-endian number of envelope bytes that follow the header
\* and at offset 5 the big-endian number of chunk bytes that follow the
\* envelope (0 when no chunk is held), and holds nothing else.
C11_FrameLengths ==
    Sent =>
        /\ Len(outcome.data) >= HeaderLen
        /\ ReadInt8(outcome.data, 0) = VERSION
        /\ ReadInt32BE(outcome.data, 1) = Len(toBuffer(This))
        /\ ReadInt32BE(outcome.data, 5) = Len(HeldChunk)
        /\ outcome.data = SubSeq(outcome.data, 1, HeaderLen) \o toBuffer(This) \o HeldChunk

\* C11 happens: a frame sent with a chunk of two bytes after its envelope.
C11_Witness ==
    /\ Sent
    /\ Len(HeldChunk) = 2
    /\ ReadInt32BE(outcome.data, 5) = 2
    /\ ReadInt32BE(outcome.data, 1) > 0

(***************************************************************************)
(* Properties of the request headers (Spec).                               *)
(***************************************************************************)
RequestBuilders ==
    {"put", "get", "delete", "noOp", "flush", "setClusterVersion", "getLog"}

\* The envelope held was built by a request builder.
HoldsRequest == built # None /\ "connectionID" \in DOMAIN built[1].header

\* The step is a call of a request builder.
RequestStep == nops' = nops + 1 /\ outcome'.op \in RequestBuilders /\ built' # None

\* C12: a request built while the envelope of an earlier request of the
\* connection is still held carries the connectionID of that request.
C12_SameConnectionID ==
    [][(HoldsRequest /\ RequestStep)
          => built'[1].header.connectionID = built[1].header.connectionID]_vars

\* A request builder has built a request.
Requested == outcome.op \in RequestBuilders /\ ~outcome.threw

\* C13 as stated: a request built while the envelope of an earlier request
\* of the connection is still held carries a greater header.sequence.
C13_StrictlyIncreasing ==
    [][(HoldsRequest /\ RequestStep)
          => built'[1].header.sequence > built[1].header.sequence]_vars

\* C13: the header.sequence of a built request is the value the caller
\* passed as incrementTCP, unchanged.
C13_SequenceAsGiven ==
    Requested =>
        /\ built # None
        /\ outcome.incrementTCP = Some(built[1].header.sequence)

\* C13 happens: after an earlier operation, get builds a request with the
\* sequence MaxSeq.
C13_Witness ==
    /\ Requested
    /\ outcome.incrementTCP = Some(MaxSeq)
    /\ outcome.op = "get"
    /\ nops > 1

(***************************************************************************)
(* Properties of the code tables (Spec).                                   *)
(***************************************************************************)
\* The name the op table has for the operation of each builder.
OpName ==
    [put |-> "PUT", putResponse |-> "PUT_RESPONSE", get |-> "GET",
     getResponse |-> "GET_RESPONSE", delete |-> "DELETE",
     deleteResponse |-> "DELETE_RESPONSE", noOp |-> "NOOP",
     noOpResponse |-> "NOOP_RESPONSE", flush |-> "FLUSH",
     flushResponse |-> "FLUSH_RESPONSE",
     setClusterVersion |-> "SET_CLUSTER_VERSION",
     setupResponse |-> "SETUP_RESPONSE", getLog |-> "GETLOG",
     getLogResponse |-> "GETLOG_RESPONSE"]

\* Codes looked up: every code of the three tables and some of none.
Codes == (-3) .. 34

\* parse has decoded the frame a builder and send wrote.
ParsedBuilt ==
    Parsed /\ ~outcome.threw /\ outcome.from \in {"self", "peer"} /\ outcome.sentCmd # None

\* The builder b wrote the command cmd.
BuiltBy(b, cmd) == cmd.header.messageType = MessageType(literal[b])

\* The codes of a table are pairwise distinct.
Distinct(object) ==
    \A k1, k2 \in DOMAIN object : object[k1] = object[k2] => k1 = k2

\* The lookup returns the one name of a code the table has and undefined for
\* any other value.
Inverts(keys, object, lookup(_)) ==
    /\ DOMAIN object = { keys[i] : i \in DOMAIN keys }
    /\ \A k \in DOMAIN object : lookup(Some(object[k])) = Some(k)
    /\ \A c \in Codes :
          (\A k \in DOMAIN object : object[k] # c) => lookup(Some(c)) = None
    /\ lookup(None) = None

\* C14: after parse decoded the frame that a builder and send wrote,
\* getOp(getMessageType()) is the op-table name of the builder's operation;
\* each of the tables op, errors and logs has pairwise distinct codes, and
\* getOp, getError and getLogType give the one name of a code of their
\* table and undefined for any other value.
C14_OpNames ==
    ParsedBuilt =>
        /\ \E b \in DOMAIN OpName : BuiltBy(b, outcome.sentCmd[1])
        /\ \A b \in DOMAIN OpName :
              BuiltBy(b, outcome.sentCmd[1])
                  => getOp(getMessageType(This)) = Some(OpName[b])
        /\ Distinct(op) /\ Distinct(errors) /\ Distinct(logs)
        /\ Inverts(opKeys, op, getOp)
        /\ Inverts(errorsKeys, errors, getError)
        /\ Inverts(logsKeys, logs, getLogType)

\* C14 happens: the instance parses the frame it wrote for setClusterVersion,
\* whose literal is not the name of the op table.
C14_Witness ==
    /\ ParsedBuilt
    /\ outcome.from = "self"
    /\ BuiltBy("setClusterVersion", outcome.sentCmd[1])
    /\ getOp(getMessageType(This)) = Some("SET_CLUSTER_VERSION")

(***************************************************************************)
(* Properties of the listing (SpecList).                                   *)
(***************************************************************************)
\* C15: keys counts the entries of Contents and CommonPrefixes together,
\* and with maxKeys above 0 it never exceeds maxKeys, whatever keys were
\* passed to filter.
C15_AtMostMaxKeys ==
    /\ listing.keys = Len(listing.Contents) + Len(listing.CommonPrefixes)
    /\ listing.maxKeys > 0 => listing.keys <= listing.maxKeys

\* C15 happens: a listing of maxKeys 2 holds one key and one common prefix
\* and filter has refused a third entry.
C15_Witness ==
    /\ stopped
    /\ listing.maxKeys = MaxMaxKeys
    /\ listing.keys = listing.maxKeys
    /\ Len(listing.Contents) = 1
    /\ Len(listing.CommonPrefixes) = 1

\* The entry a key stands for: its common prefix when a delimiter is set
\* and occurs at or after the prefix length, and the key itself otherwise.
Entry(this, key) ==
    IF Truthy(this.delimiter)
    THEN LET delimiterIndex == nextDelimiter(key, this.delimiter[1], baseIndex(this))
         IN  IF delimiterIndex = -1 THEN <<"key", key>>
             ELSE <<"prefix", getCommonPrefix(key, this.delimiter[1], delimiterIndex)>>
    ELSE <<"key", key>>

\* The positions of the entries of the page that filter has not listed: from
\* the one it refused on, or none when the entries ended.
Remaining == (IF stopped THEN fed ELSE fed + 1) .. Len(passed)

\* The rest of the input holds an entry the listing does not have.
HoldsUnlisted ==
    \E i \in Remaining : Entry(listing, passed[i].key) \notin Entries(listing)

\* C16: when a first page over sorted keys with maxKeys above 0 is over,
\* IsTruncated is true exactly when the listing stopped at maxKeys and the
\* rest of the input holds an entry not yet listed.
C16_TruncatedIffMore ==
    (/\ Done /\ Sorted(keyspace)
     /\ page = 1 /\ marker = None
     /\ listing.maxKeys > 0)
        => (result(listing).IsTruncated
               <=> (listing.keys = listing.maxKeys /\ HoldsUnlisted))

\* The string of the entry listed last, or undefined.
LastListed == IF lastAdded = None THEN None ELSE Some(lastAdded[1][2])

\* C17: NextMarker of result() is undefined while IsTruncated is false, and
\* is the entry added last, a key or a common prefix, when it is true.
C17_NextMarker ==
    /\ ~result(listing).IsTruncated => result(listing).NextMarker = None
    /\ result(listing).IsTruncated
          => /\ lastAdded # None
             /\ result(listing).NextMarker = LastListed

\* C17 happens: a truncated listing whose last entry is a common prefix
\* added after a key.
C17_Witness ==
    /\ result(listing).IsTruncated
    /\ lastAdded # None
    /\ lastAdded[1][1] = "prefix"
    /\ Len(listing.Contents) >= 1
    /\ result(listing).NextMarker = Some(lastAdded[1][2])

\* The step passes a key to filter below the limit, with a delimiter set.
Classifies ==
    /\ fed' = fed + 1
    /\ Truthy(listing.delimiter)
    /\ listing.keys < listing.maxKeys

\* No string is twice in the sequence.
NoRepeat(prefixes) ==
    \A i, j \in DOMAIN prefixes : prefixes[i] = prefixes[j] => i = j

\* C18 as stated: every key passed below the limit with a delimiter set
\* either puts its common prefix into CommonPrefixes and leaves Contents
\* alone, or is added to Contents; CommonPrefixes holds no prefix twice.
C18_ClassifiedOnce ==
    [][Classifies =>
        LET key == passed[fed + 1].key
            entry == Entry(listing, key)
        IN  /\ entry[1] = "prefix"
                  => /\ Includes(listing'.CommonPrefixes, entry[2])
                     /\ listing'.Contents = listing.Contents
            /\ entry[1] = "key"
                  => /\ listing'.Contents
                           = Append(listing.Contents, content(key, passed[fed + 1].value))
                     /\ listing'.CommonPrefixes = listing.CommonPrefixes
            /\ NoRepeat(listing'.CommonPrefixes)]_vars

\* C18: a key passed below the limit with a delimiter set is skipped when
\* it is outside the prefix and starts with NextMarker; otherwise a key
\* with the delimiter at or after the prefix length leaves Contents alone
\* and appends its common prefix unless CommonPrefixes has it or NextMarker
\* equals it, and a key without is appended to Contents; CommonPrefixes
\* holds no prefix twice.
C18_Classified ==
    [][Classifies =>
        LET key == passed[fed + 1].key
            entry == Entry(listing, key)
        IN  /\ NoRepeat(listing'.CommonPrefixes)
            /\ IF skips(listing, key)
               THEN listing' = listing
               ELSE /\ entry[1] = "prefix"
                          => /\ listing'.Contents = listing.Contents
                             /\ listing'.CommonPrefixes
                                   = IF \/ Includes(listing.CommonPrefixes, entry[2])
                                        \/ listing.NextMarker = Some(entry[2])
                                     THEN listing.CommonPrefixes
                                     ELSE Append(listing.CommonPrefixes, entry[2])
                    /\ entry[1] = "key"
                          => /\ listing'.Contents
                                   = Append(listing.Contents,
                                            content(key, passed[fed + 1].value))
                             /\ listing'.CommonPrefixes = listing.CommonPrefixes]_vars

\* C18 happens: with a delimiter and a prefix set, filter has added a key
\* and a common prefix, met a key of a prefix it had, and skipped a key.
C18_Witness ==
    /\ Truthy(listing.delimiter) /\ Truthy(listing.prefix)
    /\ Len(listing.Contents) >= 1
    /\ Len(listing.CommonPrefixes) >= 1
    /\ ~stopped
    /\ fed >= listing.keys + 2
    /\ \E i \in 1..fed :
          /\ ~startsWith(passed[i].key, listing.prefix)
          /\ <<"key", passed[i].key>> \notin Entries(listing)
          /\ Entry(listing, passed[i].key)[1] = "key"

\* C19: a page of a listing over sorted keys has no key and no common
\* prefix that a page before it listed.
C19_NoRepeat == Entries(listing) \cap earlier = {}

\* C19 happens: the second page starts from a common prefix as marker, is
\* passed a key of that prefix, and lists another entry.
C19_Witness ==
    /\ page = 2
    /\ marker # None
    /\ <<"prefix", marker[1]>> \in earlier
    /\ fed >= 2
    /\ Entry(listing, passed[1].key) = <<"prefix", marker[1]>>
    /\ listing.keys >= 1

(***************************************************************************)
(* The input of the integrity check on the receive path (SpecWire).        *)
(***************************************************************************)
\* The envelope the frame carries.
Carried(data) == Decode("Message", DeclaredEnvelope(data)).val

\* The frame carries an HMAC-authenticated envelope with a digest and
\* command bytes.
Authenticated(data) ==
    /\ ~Undersized(data)
    /\ Decode("Message", DeclaredEnvelope(data)).kind = "ok"
    /\ Get(Carried(data), "authType") = Some(1)
    /\ "hmacAuth" \in DOMAIN Carried(data)
    /\ "hmac" \in DOMAIN Carried(data).hmacAuth

\* The digest the frame carries is the digest of the length of its command
\* bytes followed by those bytes.
DigestOfCarried(data) ==
    Carried(data).hmacAuth.hmac
        = Hmac(Secret, WriteInt32BE(Len(Carried(data).commandBytes))
                           \o Carried(data).commandBytes)

\* C20: when an instance that holds a digest parses a frame as far as the
\* integrity stage, the result is SUCCESS exactly if the digest carried is
\* the digest of the length of the command bytes carried followed by those
\* bytes; neither the chunk nor the other fields of the envelope count.
C20_DigestOfCarriedBytes ==
    [][(/\ _hmac.def
        /\ nops' = nops + 1
        /\ outcome'.op = "parse" /\ ~outcome'.threw
        /\ Ran(outcome'.stages, "hmac")
        /\ Authenticated(outcome'.data))
          => (outcome'.ret = SUCCESS <=> DigestOfCarried(outcome'.data))]_vars

(***************************************************************************)
(* The envelope a builder leaves (Spec).                                   *)
(***************************************************************************)
\* A builder has returned.
Built == outcome.op \in RequestBuilders \cup ResponseBuilders /\ ~outcome.threw

\* The digest of the length of the bytes followed by the bytes.
DigestOf(bytes) == Hmac(Secret, WriteInt32BE(Len(bytes)) \o bytes)

\* C21: after a builder returned, the envelope held has authType 1 and
\* identity 1, its commandBytes are the serialization of the command just
\* built, its digest is the digest of the length of those bytes followed by
\* the bytes, and getHMAC() gives that same digest.
C21_EnvelopeOfBuilt ==
    Built =>
        /\ built # None
        /\ _message.type = "Message"
        /\ DOMAIN _message.val = {"authType", "hmacAuth", "commandBytes"}
        /\ _message.val.authType = 1
        /\ DOMAIN _message.val.hmacAuth = {"identity", "hmac"}
        /\ _message.val.hmacAuth.identity = 1
        /\ _message.val.commandBytes = Encode("Command", built[1])
        /\ _message.val.hmacAuth.hmac = DigestOf(_message.val.commandBytes)
        /\ _hmac = Buf(_message.val.hmacAuth.hmac)

\* C21 happens: a response is built after a request and the parse of a
\* frame, each of which left another digest.
C21_Witness ==
    /\ Built
    /\ nops = MaxOps
    /\ outcome.op = "getResponse"
    /\ outcome.answers # None
    /\ _hmac.def
    /\ _hmac.buf # DigestOf(Encode("Command", outcome.answers[1]))

(***************************************************************************)
(* Faults of the decode stage (SpecWire).                                  *)
(***************************************************************************)
\* What the two decodes of parse make of a frame, told from its bytes: kind
\* "ok", kind "partial" with the structure the fault carries, or "fault".
TryDecode(data) ==
    LET env == Decode("Message", DeclaredEnvelope(data)) IN
    IF env.kind = "fault" THEN [kind |-> "fault", obj |-> Undefined]
    ELSE IF env.kind = "partial"
    THEN [kind |-> "partial", obj |-> Obj("Message", env.val)]
    ELSE LET c == Decode("Command", env.val.commandBytes)
         IN  IF c.kind = "fault" THEN [kind |-> "fault", obj |-> Undefined]
             ELSE [kind |-> c.kind, obj |-> Obj("Command", c.val)]

\* A parse that reached the decode stage.
ReachedDecode ==
    Parsed /\ ~Undersized(outcome.data) /\ ~VersionDefect(outcome.data)

\* C22: when a decode of parse raises a fault that carries a structure,
\* parse takes that structure as the message and goes on to the chunk-length
\* stage and, unless that one returns DATA_ERROR, to the integrity stage; when
\* the fault carries no structure parse returns INTERNAL_ERROR and runs no
\* further stage.
C22_PartialGoesOn ==
    ReachedDecode =>
        /\ TryDecode(outcome.data).kind = "fault" =>
                /\ ~outcome.threw
                /\ outcome.ret = INTERNAL_ERROR
                /\ outcome.stages = <<"version", "decode">>
        /\ TryDecode(outcome.data).kind = "partial" =>
                /\ _message = TryDecode(outcome.data).obj
                /\ Ran(outcome.stages, "chunk")
                /\ \/ Ran(outcome.stages, "hmac")
                   \/ ~outcome.threw /\ outcome.ret = DATA_ERROR

\* C22 happens: a frame whose command decodes partially went through the
\* integrity stage.
C22_Witness ==
    /\ ReachedDecode
    /\ TryDecode(outcome.data).kind = "partial"
    /\ _message.type = "Command"
    /\ Ran(outcome.stages, "hmac")
    /\ ~outcome.threw

(***************************************************************************)
(* When the integrity stage runs (SpecWire).                               *)
(***************************************************************************)
\* The parse passed the version, decode and chunk-length stages, and both
\* the envelope and the command of the frame decoded.
PassedThree ==
    /\ ReachedDecode
    /\ Decode("Message", DeclaredEnvelope(outcome.data)).kind = "ok"
    /\ TryDecode(outcome.data).kind = "ok"
    /\ Ran(outcome.stages, "hmac")

\* The envelope carries no digest.
DigestMissing(data) ==
    \/ "hmacAuth" \notin DOMAIN Carried(data)
    \/ "hmac" \notin DOMAIN Carried(data).hmacAuth

\* C23: for a frame that passed the version, decode and chunk-length
\* stages, an envelope of authType 1 whose digest is missing or is not the
\* digest of its command bytes yields HMAC_FAILURE, and an envelope of any
\* other authType yields SUCCESS.
C23_IntegrityIffHmacAuth ==
    PassedThree =>
        IF Get(Carried(outcome.data), "authType") = Some(1)
        THEN (IF DigestMissing(outcome.data) THEN TRUE
              ELSE ~DigestOfCarried(outcome.data))
                => (~outcome.threw /\ outcome.ret = HMAC_FAILURE)
        ELSE ~outcome.threw /\ outcome.ret = SUCCESS

(***************************************************************************)
(* The comparison of two buffers (SpecDiff).                               *)
(***************************************************************************)
\* The two buffers are equal at every index below the length of the first.
EqualAtEveryIndex(buf0, buf1) ==
    \A i \in 0..(Len(buf0) - 1) : At(buf0, i) = At(buf1, i)

\* C24: diff(buf0, buf1) returns true if and only if the two buffers have
\* the same length and are equal at every index in 0..length-1, and false
\* otherwise.
C24_DiffIsEquality ==
    same # None =>
        (same[1] <=> (/\ Len(given0) = Len(given1)
                      /\ EqualAtEveryIndex(given0, given1)))

\* C24 happens: diff compared two buffers of the greatest length that
\* differ in their last byte only.
C24_Witness ==
    /\ same = Some(FALSE)
    /\ Len(given0) = MaxBufLen /\ Len(given1) = MaxBufLen
    /\ given0[MaxBufLen] # given1[MaxBufLen]
    /\ \A i \in 1..(MaxBufLen - 1) : given0[i] = given1[i]

(***************************************************************************)
(* The prefix of a listing (SpecList).                                     *)
(***************************************************************************)
\* C25 as stated: when a prefix is set, every key of Contents and every
\* entry of CommonPrefixes starts with it, and the keys counted are those
\* entries: a key outside the prefix is skipped and not counted.
C25_OnlyUnderPrefix ==
    Truthy(listing.prefix) =>
        /\ \A e \in Entries(listing) : startsWith(e[2], listing.prefix)
        /\ listing.keys = Len(listing.Contents) + Len(listing.CommonPrefixes)

\* The step passes a key to the filter of a listing with a prefix, below
\* the limit.
FiltersUnderPrefix ==
    /\ fed' = fed + 1
    /\ Truthy(listing.prefix)
    /\ listing.keys < listing.maxKeys

\* C25 as the code has it: when a prefix is set, a key that does not start
\* with it is skipped without being counted when it starts with NextMarker;
\* with no delimiter set, any other key outside the prefix is added to
\* Contents and counted; an entry made of a key that starts with the prefix
\* starts with the prefix.
C25_SkipsAtMarker ==
    [][FiltersUnderPrefix =>
        LET key == passed[fed + 1].key IN
        /\ (~startsWith(key, listing.prefix) /\ startsWith(key, listing.NextMarker))
              => listing' = listing
        /\ (/\ ~startsWith(key, listing.prefix)
            /\ ~startsWith(key, listing.NextMarker)
            /\ ~Truthy(listing.delimiter))
              => /\ Added(listing, listing') = Some(<<"key", key>>)
                 /\ listing'.keys = listing.keys + 1
        /\ (startsWith(key, listing.prefix) /\ Added(listing, listing') # None)
              => startsWith(Added(listing, listing')[1][2], listing.prefix)]_vars

\* The key is in Contents or under one of the CommonPrefixes.
Covered(this, key) ==
    \E e \in Entries(this) : startsWith(key, Some(e[2]))

\* C25 happens: of the keys outside the prefix passed to a listing with a
\* prefix, one was skipped and one is in Contents, next to a key under the
\* prefix.
C25_Witness ==
    /\ Truthy(listing.prefix)
    /\ ~stopped
    /\ \E i \in 1..fed :
          /\ ~startsWith(passed[i].key, listing.prefix)
          /\ ~Covered(listing, passed[i].key)
    /\ \E i \in 1..fed :
          /\ ~startsWith(passed[i].key, listing.prefix)
          /\ <<"key", passed[i].key>> \in Entries(listing)
    /\ \E i \in 1..fed :
          /\ startsWith(passed[i].key, listing.prefix)
          /\ <<"key", passed[i].key>> \in Entries(listing)

(***************************************************************************)
(* A listing of no keys (SpecList).                                        *)
(***************************************************************************)
\* The caller gave a maxKeys of zero or below.
NoKeysAsked == limit # None /\ limit[1] <= 0

\* C26: a Delimiter constructed with maxKeys zero or negative lists
\* nothing: the first call of filter returns false, Contents and
\* CommonPrefixes stay empty and IsTruncated stays false.
C26_ListsNothing ==
    NoKeysAsked =>
        /\ fed >= 1 => stopped
        /\ listing.Contents = <<>>
        /\ listing.CommonPrefixes = <<>>
        /\ ~listing.IsTruncated

(***************************************************************************)
(* The envelope the integrity stage consults (SpecWire).                   *)
(***************************************************************************)
\* C27: after a parse that reached the integrity stage, the envelope whose
\* authType and digest that stage consults (this._cmd) is the envelope
\* decoded from the frame parsed, also when its decode faulted with a
\* partial structure; it is never the one an earlier parse left, or none.
C27_EnvelopeOfThisFrame ==
    (ReachedDecode /\ Ran(outcome.stages, "hmac"))
        => _cmd = Obj("Message", Carried(outcome.data))

(***************************************************************************)
(* The current message among builders and parse (Spec).                    *)
(***************************************************************************)
\* The step is a parse that passed the decode stage: the envelope decoded
\* and the command decoded, wholly or partially.
DecodedStep ==
    /\ outcome'.op = "parse"
    /\ Ran(outcome'.stages, "chunk")
    /\ Decode("Message", DeclaredEnvelope(outcome'.data)).kind = "ok"

\* C28: the current message is the envelope after a builder and the decoded
\* Command after a parse that passed the decode stage; a response builder
\* reads header and body from the current message, so it builds a response
\* with the sequence of the current message only when that is a decoded
\* Command, and throws without changing anything when it is an envelope (a
\* response built right after another) or undefined.
C28_CurrentMessage ==
    [][nops' = nops + 1 =>
        /\ (outcome'.op \in RequestBuilders \cup ResponseBuilders /\ ~outcome'.threw)
              => /\ _message'.type = "Message"
                 /\ "header" \notin DOMAIN _message'.val
                 /\ "body" \notin DOMAIN _message'.val
        /\ DecodedStep
              => /\ _message'.type = "Command"
                 /\ _message' = TryDecode(outcome'.data).obj
        /\ outcome'.op \in ResponseBuilders
              => IF _message.type = "Command"
                 THEN ~outcome'.threw
                         => /\ built' # None
                            /\ Get(built'[1].header, "ackSequence")
                                 = Get(_message.val.header, "sequence")
                 ELSE outcome'.threw /\ _message' = _message]_vars

\* C28 happens: a response was built to a decoded request, and the response
\* builder called right after it threw: the envelope of the first response
\* is still the current message.
C28_Witness ==
    /\ outcome.op \in ResponseBuilders
    /\ outcome.threw
    /\ _message.type = "Message"
    /\ built # None
    /\ "ackSequence" \in DOMAIN built[1].header

=============================================================================
